---- MODULE Spec2Model ----
(***************************************************************************)
(* Model of the gate client bootstrap of the spin CLI.                     *)
(*                                                                         *)
(* Two implementations live in the repository and both are modelled:       *)
(*   "GatewayClient"  (NewGateClient with ui/flags arguments): userConfig, *)
(*       initializeClient, authenticateOAuth2,                             *)
(*       authenticateGoogleServiceAccount, authenticateLdap, version call; *)
(*   "ApiMeta"        (NewGateClient(flags), used by cmd/application):     *)
(*       config load, Authenticate, InitializeClient.                      *)
(*                                                                         *)
(* Strings whose content is transformed by the program (terminal input,    *)
(* PKCE verifier and challenge, LDAP credentials) are sequences of byte    *)
(* values; strings that are only tested for emptiness or copied are TLA+   *)
(* strings.                                                                *)
(***************************************************************************)
EXTENDS Integers, Sequences, FiniteSets, TLC

VARIABLES
    impl,               \* which NewGateClient runs: "GatewayClient" or "ApiMeta"
    ignoreCertErrors,   \* the --insecure flag
    endpointOK,         \* whether GateEndpoint()+"/login" is a URL http.NewRequest accepts
    defaultHeadersOK,   \* whether every --default-headers element has the key=value form
    loadOutcome,        \* what reading and parsing the config file gives
    disk,               \* the config file: [exists, mode, content]
    Config,             \* m.Config, the in-memory configuration
    Context,            \* m.Context
    client,             \* the *http.Client built by initializeClient
    defaultTransportInsecure, \* http.DefaultTransport's TLSClientConfig.InsecureSkipVerify
    pc,                 \* position of the main flow
    err,                \* the error NewGateClient is returning, "" when none
    listener,           \* the goroutine running http.ListenAndServe(":8085")
    echoed,             \* codes the listener's handler has written back, in order
    oa,                 \* locals of the OAuth2 handler
    events,             \* observable effects of the handler that ran last, in order
    ran,                \* the handlers whose scheme section took effect, in order
    netCalls,           \* number of network calls NewGateClient has made so far
    fileReads,          \* number of reads of the config file
    fileWrites,         \* number of ioutil.WriteFile calls on the config file
    warnings            \* number of ui.Warn calls

vars == <<impl, ignoreCertErrors, endpointOK, defaultHeadersOK, loadOutcome, disk,
          Config, Context, client, defaultTransportInsecure, pc, err, listener,
          echoed, oa, events, ran, netCalls, fileReads, fileWrites, warnings>>

-----------------------------------------------------------------------------
(* Bounds of the model.                                                    *)

\* Number of inputs (flags, file properties, config sections) that differ
\* from the plain configuration "auth enabled, no scheme section".
MaxVaried == 2

\* Number of random bytes rand.Read delivers (64 and 5 in the source).
RandLen == 1

\* Number of HTTP requests that reach the local callback listener.
MaxRequests == 1

-----------------------------------------------------------------------------
(* Program constants.                                                      *)

\* os.FileMode 0600
defaultConfigFileMode == 384

\* tls.VersionTLS12 (0x0303)
VersionTLS12 == 771

\* http.StatusOK
StatusOK == 200

-----------------------------------------------------------------------------
(* Strings as byte sequences.                                              *)

NL == 10
SP == 32

IsSpace(c) == c \in {9, 10, 11, 12, 13, 32}

RECURSIVE TrimLeft(_)
TrimLeft(s) ==
    IF s = <<>> THEN <<>>
    ELSE IF IsSpace(Head(s)) THEN TrimLeft(Tail(s)) ELSE s

RECURSIVE TrimRight(_)
TrimRight(s) ==
    IF s = <<>> THEN <<>>
    ELSE IF IsSpace(s[Len(s)]) THEN TrimRight(SubSeq(s, 1, Len(s) - 1)) ELSE s

\* strings.TrimSpace
TrimSpace(s) == TrimRight(TrimLeft(s))

\* What the user may type at a prompt, up to and including the newline.
TerminalLines == { <<NL>>, <<SP, 120, SP, NL>> }

\* base64.RawURLEncoding: the URL-safe alphabet, no padding.
B64Char(i) ==
    IF i < 26 THEN 65 + i
    ELSE IF i < 52 THEN 97 + (i - 26)
    ELSE IF i < 62 THEN 48 + (i - 52)
    ELSE IF i = 62 THEN 45 ELSE 95

RECURSIVE RawURLEncode(_)
RawURLEncode(bs) ==
    IF Len(bs) = 0 THEN <<>>
    ELSE IF Len(bs) = 1 THEN
        << B64Char(bs[1] \div 4), B64Char((bs[1] % 4) * 16) >>
    ELSE IF Len(bs) = 2 THEN
        << B64Char(bs[1] \div 4),
           B64Char((bs[1] % 4) * 16 + bs[2] \div 16),
           B64Char((bs[2] % 16) * 4) >>
    ELSE
        << B64Char(bs[1] \div 4),
           B64Char((bs[1] % 4) * 16 + bs[2] \div 16),
           B64Char((bs[2] % 16) * 4 + bs[3] \div 64),
           B64Char(bs[3] % 64) >> \o RawURLEncode(SubSeq(bs, 4, Len(bs)))

\* sha256.Sum256, abstracted to a two-byte digest: a deterministic function of
\* the whole input that is neither the identity nor constant.
RECURSIVE Mix(_, _)
Mix(h, s) == IF s = <<>> THEN h ELSE Mix((h * 31 + Head(s) + 1) % 256, Tail(s))

Sum256(s) == << Mix(7, s), (Mix(7, s) * 17 + Len(s) + 3) % 256 >>

\* The byte values rand.Read may deliver.
RandByteValues == {0, 255}

RECURSIVE ByteStrings(_)
ByteStrings(n) ==
    IF n = 0 THEN { <<>> }
    ELSE { <<b>> \o s : b \in RandByteValues, s \in ByteStrings(n - 1) }

-----------------------------------------------------------------------------
(* Configuration values.                                                   *)

NilToken == [nil |-> TRUE, AccessToken |-> "", Expired |-> FALSE]
Token(at, expired) == [nil |-> FALSE, AccessToken |-> at, Expired |-> expired]

\* oauth2.Token.Valid
TokenValid(t) == ~t.nil /\ t.AccessToken # "" /\ ~t.Expired

NilX509 == [nil |-> TRUE, CertPath |-> "", KeyPath |-> "", Cert |-> "", Key |-> ""]
X509Of(cp, kp, c, k) == [nil |-> FALSE, CertPath |-> cp, KeyPath |-> kp, Cert |-> c, Key |-> k]
X509Values ==
    { NilX509,
      X509Of("", "", "", ""),
      X509Of("cert.pem", "", "", ""),
      X509Of("cert.pem", "key.pem", "", ""),
      X509Of("", "", "CERT", "KEY"),
      X509Of("cert.pem", "key.pem", "CERT", "KEY") }

NilIap == [nil |-> TRUE]
IapValues == { NilIap, [nil |-> FALSE] }

NilBasic == [nil |-> TRUE, Username |-> "", Password |-> ""]
BasicValues ==
    { NilBasic,
      [nil |-> FALSE, Username |-> "u", Password |-> "p"],
      [nil |-> FALSE, Username |-> "u", Password |-> ""] }

NilOAuth2 == [nil |-> TRUE, ClientId |-> "", ClientSecret |-> "", AuthUrl |-> "",
              TokenUrl |-> "", Scopes |-> <<>>, CachedToken |-> NilToken]
OAuth2Of(id, tok) ==
    [nil |-> FALSE, ClientId |-> id, ClientSecret |-> "secret", AuthUrl |-> "auth",
     TokenUrl |-> "token", Scopes |-> <<"email">>, CachedToken |-> tok]
OAuth2Values ==
    { NilOAuth2,
      OAuth2Of("", NilToken),
      OAuth2Of("id", NilToken),
      OAuth2Of("id", Token("cachedAT", FALSE)),
      OAuth2Of("id", Token("cachedAT", TRUE)) }

NilGsa == [nil |-> TRUE, Enabled |-> FALSE, File |-> "", CachedToken |-> NilToken]
GsaOf(en, file, tok) == [nil |-> FALSE, Enabled |-> en, File |-> file, CachedToken |-> tok]
GsaValues ==
    { NilGsa,
      GsaOf(FALSE, "", Token("gsaCachedAT", FALSE)),
      GsaOf(TRUE, "", NilToken),
      GsaOf(TRUE, "key.json", NilToken),
      GsaOf(TRUE, "", Token("gsaCachedAT", FALSE)),
      GsaOf(TRUE, "", Token("gsaCachedAT", TRUE)) }

NilLdap == [nil |-> TRUE, Username |-> <<>>, Password |-> <<>>]
LdapOf(u, p) == [nil |-> FALSE, Username |-> u, Password |-> p]
LdapValues ==
    { NilLdap,
      LdapOf(<<117>>, <<112>>),
      LdapOf(<<>>, <<112>>),
      LdapOf(<<117>>, <<>>),
      LdapOf(<<>>, <<>>) }

\* config.Config: Auth is a pointer ("absent" is nil); the sections are pointers too.
ConfigOf(auth, x, i, b, o, g, l) ==
    [auth |-> auth, X509 |-> x, Iap |-> i, Basic |-> b, OAuth2 |-> o,
     GoogleServiceAccount |-> g, Ldap |-> l]

\* config.Config{}
EmptyConfig == ConfigOf("absent", NilX509, NilIap, NilBasic, NilOAuth2, NilGsa, NilLdap)

AuthEnabled(c) == c.auth = "enabled"

FileModes == { defaultConfigFileMode, 420 }

\* 1 when an input differs from its plain value.
Dev(differs) == IF differs THEN 1 ELSE 0

Varied(c) ==
    Dev(c.auth # "enabled") + Dev(~c.X509.nil) + Dev(~c.Iap.nil) + Dev(~c.Basic.nil)
    + Dev(~c.OAuth2.nil) + Dev(~c.GoogleServiceAccount.nil) + Dev(~c.Ldap.nil)

\* The configurations the file may hold. With no auth section there are no
\* scheme sections; the ApiMeta implementation's config has only x509, basic
\* and oauth2.
ConfigSpace(im) ==
    { c \in { ConfigOf(a, x, i, b, o, g, l) :
                a \in {"enabled", "disabled", "absent"}, x \in X509Values,
                i \in IF im = "ApiMeta" THEN {NilIap} ELSE IapValues,
                b \in BasicValues, o \in OAuth2Values,
                g \in IF im = "ApiMeta" THEN {NilGsa} ELSE GsaValues,
                l \in IF im = "ApiMeta" THEN {NilLdap} ELSE LdapValues } :
        /\ Varied(c) <= MaxVaried
        /\ c.auth = "absent" =>
             c = ConfigOf("absent", NilX509, NilIap, NilBasic, NilOAuth2, NilGsa, NilLdap) }

-----------------------------------------------------------------------------
(* Client, context and handler-local values.                               *)

NoClient == [nil |-> TRUE, Jar |-> FALSE, tls |-> FALSE, MinVersion |-> 0,
             PreferServerCipherSuites |-> FALSE, Certificates |-> <<>>,
             InsecureSkipVerify |-> FALSE]

\* http.Client{Jar: cookieJar}
BaseClient == [nil |-> FALSE, Jar |-> TRUE, tls |-> FALSE, MinVersion |-> 0,
               PreferServerCipherSuites |-> FALSE, Certificates |-> <<>>,
               InsecureSkipVerify |-> FALSE]

CtxNil == [kind |-> "nil", token |-> "", UserName |-> "", Password |-> ""]
CtxBackground == [kind |-> "background", token |-> "", UserName |-> "", Password |-> ""]
CtxAccessToken(t) == [kind |-> "ContextAccessToken", token |-> t, UserName |-> "", Password |-> ""]
CtxBasicAuth(u, p) == [kind |-> "ContextBasicAuth", token |-> "", UserName |-> u, Password |-> p]

NoLocals == [verifier |-> <<>>, challenge |-> <<>>, method |-> "", code |-> <<>>,
             newToken |-> NilToken]

-----------------------------------------------------------------------------
(* Validity checks of the config package.                                  *)

\* x509.Config.IsValid: exactly one of the two pairs is populated.
X509IsValid(x) ==
    LET pathPair == x.CertPath # "" /\ x.KeyPath # ""
        inlinePair == x.Cert # "" /\ x.Key # ""
    IN  (pathPair \/ inlinePair) /\ ~(pathPair /\ inlinePair)

\* basic.Config.IsValid
BasicIsValid(b) == b.Username # "" /\ b.Password # ""

\* oauth2.Config.IsValid
OAuth2IsValid(o) ==
    /\ o.ClientId # "" /\ o.ClientSecret # ""
    /\ o.AuthUrl # "" /\ o.TokenUrl # "" /\ Len(o.Scopes) > 0

\* ldap.Config.IsValid
LdapIsValid(l) == l.Username # <<>> /\ l.Password # <<>>

\* googleserviceaccount.Config.IsEnabled (nil-safe)
GsaIsEnabled(g) == ~g.nil /\ g.Enabled

-----------------------------------------------------------------------------
(* Events and counters.                                                    *)

NetTypes == {"refresh", "exchange", "iap_fetch", "gsa_fetch", "get_login",
             "post_login", "get_version"}

RECURSIVE CountType(_, _)
CountType(es, types) ==
    IF es = <<>> THEN 0
    ELSE (IF Head(es).type \in types THEN 1 ELSE 0) + CountType(Tail(es), types)

NetCount(es) == CountType(es, NetTypes)
WriteCount(es) == CountType(es, {"write"})
WarnCount(es) == CountType(es, {"warn"})

\* Positions of the events of the given types.
Positions(es, types) == { i \in 1..Len(es) : es[i].type \in types }

-----------------------------------------------------------------------------
(* Helpers of the client.                                                  *)

\* Mutant of initializeX509Config: the minimum version is left unset and
\* verification is skipped whatever the flag.
initializeX509ConfigLax(insecure, cert) ==
    [nil |-> FALSE, Jar |-> TRUE, tls |-> TRUE, MinVersion |-> 0,
     PreferServerCipherSuites |-> TRUE, Certificates |-> <<cert>>,
     InsecureSkipVerify |-> TRUE]

\* initializeX509Config: the client with the TLS settings and the certificate.
initializeX509Config(insecure, cert) ==
    [nil |-> FALSE, Jar |-> TRUE, tls |-> TRUE, MinVersion |-> VersionTLS12,
     PreferServerCipherSuites |-> TRUE, Certificates |-> <<cert>>,
     InsecureSkipVerify |-> insecure]

\* Mutant of X509Case: neither IsValid nor the default case rejects the section.
X509CaseUnchecked(x, insecure, certLoads) ==
    IF ~certLoads THEN [err |-> "x509load", client |-> NoClient]
    ELSE IF x.CertPath # "" /\ x.KeyPath # ""
         THEN [err |-> "", client |-> initializeX509Config(insecure, "fileCert")]
         ELSE [err |-> "", client |-> initializeX509Config(insecure, "inlineCert")]

\* The X509 case of initializeClient / InitializeClient. certLoads: whether
\* homedir.Expand, tls.LoadX509KeyPair / tls.X509KeyPair and ReadFile succeed.
X509Case(x, insecure, certLoads) ==
    IF ~X509IsValid(x) THEN [err |-> "x509config", client |-> NoClient]
    ELSE IF x.CertPath # "" /\ x.KeyPath # "" THEN
        IF certLoads THEN [err |-> "", client |-> initializeX509Config(insecure, "fileCert")]
        ELSE [err |-> "x509load", client |-> NoClient]
    ELSE IF x.Cert # "" /\ x.Key # "" THEN
        IF certLoads THEN [err |-> "", client |-> initializeX509Config(insecure, "inlineCert")]
        ELSE [err |-> "x509load", client |-> NoClient]
    ELSE [err |-> "x509config", client |-> NoClient]

\* Mutant of DefaultTransportInsecure: verification is switched off whatever
\* the flag.
DefaultTransportAlwaysInsecure(current, insecure) == TRUE

\* if m.ignoreCertErrors { http.DefaultTransport...TLSClientConfig =
\* &tls.Config{InsecureSkipVerify: true} }
DefaultTransportInsecure(current, insecure) == current \/ insecure

\* Mutant of BasicCase: the two values change places in the context.
BasicCaseSwapped(b, ctx) ==
    IF ~BasicIsValid(b) THEN [err |-> "basicconfig", client |-> NoClient, Context |-> ctx]
    ELSE [err |-> "", client |-> BaseClient, Context |-> CtxBasicAuth(b.Password, b.Username)]

\* The Basic case: the context carries the configured pair, or the section is rejected.
BasicCase(b, ctx) ==
    IF ~BasicIsValid(b) THEN [err |-> "basicconfig", client |-> NoClient, Context |-> ctx]
    ELSE [err |-> "", client |-> BaseClient, Context |-> CtxBasicAuth(b.Username, b.Password)]

\* The IAP case: authenticateIAP's token goes into the context whatever the
\* error; the client is returned together with the error.
IapCase(iapOK) ==
    [err |-> IF iapOK THEN "" ELSE "iap",
     client |-> BaseClient,
     Context |-> CtxAccessToken(IF iapOK THEN "iapAT" ELSE ""),
     events |-> << [by |-> "iap", type |-> "iap_fetch", ok |-> iapOK] >>]

\* The switch of initializeClient (GatewayClient) and the if-chain of
\* InitializeClient (ApiMeta, which has no IAP case): the first section present
\* decides, the others are not looked at.
InitializeClientOutcome(im, cfg, ctx, insecure, certLoads, iapOK) ==
    IF AuthEnabled(cfg) /\ ~cfg.X509.nil THEN
        LET r == X509Case(cfg.X509, insecure, certLoads)
        IN  [err |-> r.err, client |-> r.client, Context |-> ctx, events |-> <<>>,
             handler |-> <<"x509">>]
    ELSE IF im = "GatewayClient" /\ AuthEnabled(cfg) /\ ~cfg.Iap.nil THEN
        LET r == IapCase(iapOK)
        IN  [err |-> r.err, client |-> r.client, Context |-> r.Context,
             events |-> r.events, handler |-> <<"iap">>]
    ELSE IF AuthEnabled(cfg) /\ ~cfg.Basic.nil THEN
        LET r == BasicCase(cfg.Basic, ctx)
        IN  [err |-> r.err, client |-> r.client, Context |-> r.Context, events |-> <<>>,
             handler |-> <<"basic">>]
    ELSE [err |-> "", client |-> BaseClient, Context |-> ctx, events |-> <<>>,
          handler |-> <<>>]

\* Mutant of TokenSourceToken: the refresh error is dropped.
TokenSourceTokenNoError(cached, refreshOK) ==
    IF TokenValid(cached) THEN [err |-> "", token |-> cached, events |-> <<>>]
    ELSE [err |-> "",
          token |-> IF refreshOK THEN Token("refreshedAT", FALSE) ELSE cached,
          events |-> << [by |-> "oauth2", type |-> "refresh", ok |-> refreshOK] >>]

\* tokenSource.Token() of config.TokenSource(ctx, cached): a valid token is
\* reused, an expired one is refreshed at the token endpoint.
TokenSourceToken(cached, refreshOK) ==
    IF TokenValid(cached) THEN [err |-> "", token |-> cached, events |-> <<>>]
    ELSE [err |-> IF refreshOK THEN "" ELSE "refresh",
          token |-> IF refreshOK THEN Token("refreshedAT", FALSE) ELSE NilToken,
          events |-> << [by |-> "oauth2", type |-> "refresh", ok |-> refreshOK] >>]

\* generateCodeVerifier: verifier and S256 challenge from the random bytes.
generateCodeVerifier(randomBytes) ==
    LET verifier == RawURLEncode(randomBytes)
    IN  [verifier |-> verifier, challenge |-> RawURLEncode(Sum256(verifier)),
         method |-> "S256"]

\* ApiMeta.Authenticate: the raw random bytes are verifier and challenge, and
\* no code_challenge_method parameter is added to the URL.
ApiMetaVerifier(randomBytes) ==
    [verifier |-> randomBytes, challenge |-> randomBytes, method |-> ""]

CodeVerifier(im, randomBytes) ==
    IF im = "GatewayClient" THEN generateCodeVerifier(randomBytes)
    ELSE ApiMetaVerifier(randomBytes)

\* Mutant of prompt: the line is returned as read, newline included.
promptUntrimmed(line) == line

\* prompt / Prompt: the line read from the terminal, trimmed.
prompt(line) == TrimSpace(line)

\* securePrompt: the password read without echo, trimmed.
securePrompt(line) == TrimSpace(line)

WriteEnvs == {"ok", "marshal", "staterr", "notexist", "writeerr"}

\* writeYAMLConfig and writeYAML of GatewayClient. A stat error other than
\* "not exist" returns nil without writing; "not exist" leaves info nil and
\* info.Mode() panics; any returned error becomes a warning.
writeYAMLConfig(by, cfg, d, wenv) ==
    IF wenv = "marshal" THEN
        [disk |-> d, panic |-> FALSE, err |-> "marshal",
         events |-> << [by |-> by, type |-> "warn"] >>]
    ELSE IF wenv = "staterr" THEN
        [disk |-> d, panic |-> FALSE, err |-> "", events |-> <<>>]
    ELSE IF wenv = "notexist" THEN
        [disk |-> [d EXCEPT !.exists = FALSE], panic |-> TRUE, err |-> "", events |-> <<>>]
    ELSE IF wenv = "ok" THEN
        [disk |-> [d EXCEPT !.content = cfg], panic |-> FALSE, err |-> "",
         events |-> << [by |-> by, type |-> "write", content |-> cfg,
                        mode |-> d.mode, ok |-> TRUE] >>]
    ELSE
        [disk |-> d, panic |-> FALSE, err |-> "write",
         events |-> << [by |-> by, type |-> "write", content |-> cfg,
                        mode |-> d.mode, ok |-> FALSE],
                       [by |-> by, type |-> "warn"] >>]

\* The write at the end of ApiMeta.Authenticate: the errors of Marshal, Stat
\* and WriteFile are all dropped; a failed Stat leaves info nil and
\* info.Mode() panics; after a failed Marshal the empty buffer is written.
ApiMetaWrite(by, cfg, d, wenv) ==
    IF wenv \in {"staterr", "notexist"} THEN
        [disk |-> [d EXCEPT !.exists = (wenv = "staterr")], panic |-> TRUE, err |-> "",
         events |-> <<>>]
    ELSE
        LET buf == IF wenv = "marshal" THEN EmptyConfig ELSE cfg
            ok == wenv # "writeerr"
        IN  [disk |-> IF ok THEN [d EXCEPT !.content = buf] ELSE d,
             panic |-> FALSE, err |-> "",
             events |-> << [by |-> by, type |-> "write", content |-> buf,
                            mode |-> d.mode, ok |-> ok] >>]

\* Mutant of WriteConfig: the file is written a second time.
WriteConfigTwice(im, by, cfg, d, wenv) ==
    LET w == IF im = "GatewayClient" THEN writeYAMLConfig(by, cfg, d, wenv)
             ELSE ApiMetaWrite(by, cfg, d, wenv)
    IN  [w EXCEPT !.events = w.events \o w.events]

\* The write of the config file in the OAuth2 handler of each implementation.
WriteConfig(im, by, cfg, d, wenv) ==
    IF im = "GatewayClient" THEN writeYAMLConfig(by, cfg, d, wenv)
    ELSE ApiMetaWrite(by, cfg, d, wenv)

\* Mutant of login: a request that failed is sent once more.
loginRetried(by, accessToken, epOK, doOK) ==
    IF ~epOK THEN [err |-> "newrequest", events |-> <<>>]
    ELSE LET req == [by |-> by, type |-> "get_login", token |-> accessToken, ok |-> doOK]
         IN  [err |-> "", events |-> IF doOK THEN <<req>> ELSE <<req, req>>]

\* login: GET <endpoint>/login with the bearer header. Only a request that
\* cannot be built is an error; the result of httpClient.Do is dropped.
login(by, accessToken, epOK, doOK) ==
    IF ~epOK THEN [err |-> "newrequest", events |-> <<>>]
    ELSE [err |-> "",
          events |-> << [by |-> by, type |-> "get_login", token |-> accessToken,
                         ok |-> doOK] >>]

-----------------------------------------------------------------------------
(* The initial state: the flags and the file NewGateClient is called with. *)

Init ==
    /\ impl \in {"GatewayClient", "ApiMeta"}
    /\ ignoreCertErrors \in BOOLEAN
    /\ endpointOK \in (IF impl = "ApiMeta" THEN {TRUE} ELSE BOOLEAN)
    /\ defaultHeadersOK \in (IF impl = "ApiMeta" THEN {TRUE} ELSE BOOLEAN)
    /\ loadOutcome \in {"ok", "unreadable", "malformed"}
    /\ Dev(ignoreCertErrors) + Dev(~endpointOK) + Dev(~defaultHeadersOK)
         + Dev(loadOutcome # "ok") <= MaxVaried
    /\ disk \in { [exists |-> loadOutcome # "unreadable", mode |-> m, content |-> c] :
                    m \in FileModes, c \in ConfigSpace(impl) }
    /\ Dev(ignoreCertErrors) + Dev(~endpointOK) + Dev(~defaultHeadersOK)
         + Dev(loadOutcome # "ok") + Dev(disk.mode # defaultConfigFileMode)
         + Varied(disk.content) <= MaxVaried
    /\ Config = EmptyConfig
    /\ Context = CtxNil
    /\ client = NoClient
    /\ defaultTransportInsecure = FALSE
    /\ pc = "userConfig"
    /\ err = ""
    /\ listener = "off"
    /\ echoed = <<>>
    /\ oa = NoLocals
    /\ events = <<>>
    /\ ran = <<>>
    /\ netCalls = 0
    /\ fileReads = 0
    /\ fileWrites = 0
    /\ warnings = 0

Flags == <<impl, ignoreCertErrors, endpointOK, defaultHeadersOK, loadOutcome>>

\* Mutant of Order: the LDAP handler is called before the OAuth2 handler.
OrderLdapFirst(im) ==
    IF im = "GatewayClient"
    THEN <<"userConfig", "initializeClient", "authenticateLdap", "authenticateOAuth2",
           "authenticateGoogleServiceAccount", "finish", "done">>
    ELSE <<"userConfig", "authenticateOAuth2", "initializeClient", "done">>

\* The stages of each NewGateClient in the order of its calls.
Order(im) ==
    IF im = "GatewayClient"
    THEN <<"userConfig", "initializeClient", "authenticateOAuth2",
           "authenticateGoogleServiceAccount", "authenticateLdap", "finish", "done">>
    ELSE <<"userConfig", "authenticateOAuth2", "initializeClient", "done">>

\* The stage NewGateClient goes on with when the given one returns nil.
After(stage) ==
    LET o == Order(impl)
        i == CHOOSE k \in 1..(Len(o) - 1) : o[k] = stage
    IN  o[i + 1]

\* Where the main flow goes after each stage, in the order of each NewGateClient.
AfterLoad == After("userConfig")
AfterInitializeClient == After("initializeClient")
AfterOAuth2 == After("authenticateOAuth2")
AfterGsa == After("authenticateGoogleServiceAccount")
AfterLdap == After("authenticateLdap")

\* The answers of the environment that a step reads: both when the step
\* consults it, a fixed one when it does not.
Answers(consulted) == IF consulted THEN BOOLEAN ELSE {TRUE}
Lines(consulted) == IF consulted THEN TerminalLines ELSE { <<NL>> }
FileSystems(consulted) == IF consulted THEN WriteEnvs ELSE {"ok"}

\* NewGateClient returns (nil, e).
Fail(e) == pc' = "failed" /\ err' = e

\* The counters follow the events a step adds.
Count(es) ==
    /\ netCalls' = netCalls + NetCount(es)
    /\ fileWrites' = fileWrites + WriteCount(es)
    /\ warnings' = warnings + WarnCount(es)

-----------------------------------------------------------------------------
(* userConfig (GatewayClient) and the config load of ApiMeta's NewGateClient. *)

UserConfig ==
    /\ pc = "userConfig"
    /\ fileReads' = fileReads + 1
    /\ events' = <<>>
    /\ IF loadOutcome = "malformed" THEN
           /\ Fail("unmarshal")
           /\ UNCHANGED <<Config, warnings>>
       ELSE IF loadOutcome = "unreadable" THEN
           IF impl = "GatewayClient" THEN
               /\ Fail("readfile")
               /\ UNCHANGED <<Config, warnings>>
           ELSE
               \* ApiMeta warns and goes on with config.Config{}
               /\ Config' = EmptyConfig
               /\ warnings' = warnings + 1
               /\ pc' = AfterLoad
               /\ UNCHANGED err
       ELSE
           /\ Config' = disk.content
           /\ pc' = AfterLoad
           /\ UNCHANGED <<err, warnings>>
    /\ UNCHANGED <<Flags, disk, Context, client, defaultTransportInsecure, listener,
                   echoed, oa, ran, netCalls, fileWrites>>

-----------------------------------------------------------------------------
(* initializeClient (GatewayClient) and InitializeClient (ApiMeta).        *)

InitializeClient ==
    /\ pc = "initializeClient"
    /\ \E certLoads \in Answers(AuthEnabled(Config) /\ ~Config.X509.nil),
          iapOK \in Answers(AuthEnabled(Config) /\ Config.X509.nil /\ ~Config.Iap.nil) :
        LET r == InitializeClientOutcome(impl, Config, Context, ignoreCertErrors,
                                         certLoads, iapOK)
        IN  /\ defaultTransportInsecure' =
                   DefaultTransportInsecure(defaultTransportInsecure, ignoreCertErrors)
            /\ Context' = r.Context
            /\ events' = r.events
            /\ ran' = ran \o r.handler
            /\ Count(r.events)
            /\ IF r.err # "" THEN
                   \* NewGateClient drops the client and returns the error
                   /\ Fail(r.err)
                   /\ client' = NoClient
               ELSE
                   /\ client' = r.client
                   /\ pc' = AfterInitializeClient
                   /\ UNCHANGED err
    /\ UNCHANGED <<Flags, disk, Config, listener, echoed, oa, fileReads>>

-----------------------------------------------------------------------------
(* authenticateOAuth2 (GatewayClient) and Authenticate (ApiMeta).          *)

OAuth2Applies(cfg) == AuthEnabled(cfg) /\ ~cfg.OAuth2.nil

\* Mutant of UseCachedToken: only a token that is still valid counts as cached.
UseCachedTokenIfValid(o) == TokenValid(o.CachedToken)

\* if auth.OAuth2.CachedToken != nil
UseCachedToken(o) == ~o.CachedToken.nil

\* Entry of the handler: the validity check, then either the cached token's
\* token source or the start of the interactive flow (http.Handle and
\* go http.ListenAndServe(":8085", nil)).
AuthenticateOAuth2 ==
    /\ pc = "authenticateOAuth2"
    /\ IF ~OAuth2Applies(Config) THEN
           /\ pc' = AfterOAuth2
           /\ events' = <<>>
           /\ UNCHANGED <<err, listener, oa, ran, netCalls, fileWrites, warnings>>
       ELSE IF ~OAuth2IsValid(Config.OAuth2) THEN
           /\ Fail("oauth2config")
           /\ events' = <<>>
           /\ ran' = Append(ran, "oauth2")
           /\ UNCHANGED <<listener, oa, netCalls, fileWrites, warnings>>
       ELSE IF UseCachedToken(Config.OAuth2) THEN
           \E refreshOK \in BOOLEAN :
               LET r == TokenSourceToken(Config.OAuth2.CachedToken, refreshOK)
               IN  /\ events' = r.events
                   /\ Count(r.events)
                   /\ ran' = Append(ran, "oauth2")
                   /\ UNCHANGED listener
                   /\ IF r.err # "" THEN Fail(r.err) /\ UNCHANGED oa
                      ELSE /\ oa' = [oa EXCEPT !.newToken = r.token]
                           /\ pc' = "oauth_cache"
                           /\ UNCHANGED err
       ELSE
           /\ listener' = "spawned"
           /\ events' = << [by |-> "oauth2", type |-> "listen"] >>
           /\ ran' = Append(ran, "oauth2")
           /\ pc' = "oauth_verifier"
           /\ UNCHANGED <<err, oa, netCalls, fileWrites, warnings>>
    /\ UNCHANGED <<Flags, disk, Config, Context, client, defaultTransportInsecure,
                   echoed, fileReads>>

\* The verifier and challenge, and the authorization URL shown to the user.
OAuthVerifier ==
    /\ pc = "oauth_verifier"
    /\ \/ \* rand.Read fails
          /\ Fail("rand")
          /\ UNCHANGED <<oa, events>>
       \/ \E randomBytes \in ByteStrings(RandLen) :
            LET v == CodeVerifier(impl, randomBytes)
            IN  /\ oa' = [oa EXCEPT !.verifier = v.verifier, !.challenge = v.challenge,
                                    !.method = v.method]
                /\ events' = Append(events,
                      [by |-> "oauth2", type |-> "url", challenge |-> v.challenge,
                       method |-> v.method])
                /\ pc' = "oauth_prompt"
                /\ UNCHANGED err
    /\ UNCHANGED <<Flags, disk, Config, Context, client, defaultTransportInsecure,
                   listener, echoed, ran, netCalls, fileReads, fileWrites, warnings>>

\* m.prompt("Paste authorization code:") returns.
OAuthPrompt ==
    /\ pc = "oauth_prompt"
    /\ \E line \in TerminalLines :
        /\ oa' = [oa EXCEPT !.code = prompt(line)]
        /\ events' = Append(events, [by |-> "oauth2", type |-> "prompt", secure |-> FALSE,
                                     field |-> "code"])
    /\ pc' = "oauth_exchange"
    /\ UNCHANGED <<Flags, disk, Config, Context, client, defaultTransportInsecure, err,
                   listener, echoed, ran, netCalls, fileReads, fileWrites, warnings>>

\* config.Exchange(ctx, code, codeVerifier)
OAuthExchange ==
    /\ pc = "oauth_exchange"
    /\ \E ok \in BOOLEAN :
        LET es == << [by |-> "oauth2", type |-> "exchange", code |-> oa.code,
                      verifier |-> oa.verifier, ok |-> ok] >>
        IN  /\ events' = events \o es
            /\ Count(es)
            /\ IF ok THEN
                   /\ oa' = [oa EXCEPT !.newToken = Token("exchangedAT", FALSE)]
                   /\ pc' = "oauth_cache"
                   /\ UNCHANGED err
               ELSE
                   /\ Fail("exchange")
                   /\ UNCHANGED oa
    /\ UNCHANGED <<Flags, disk, Config, Context, client, defaultTransportInsecure,
                   listener, echoed, ran, fileReads>>

\* Mutant of OAuth2CacheOutcome: the config is written before the token is
\* stored in it.
OAuth2CacheOutcomeStale(im, cfg, d, tok, epOK, doOK, wenv) ==
    LET cfg2 == [cfg EXCEPT !.OAuth2.CachedToken = tok]
        w == WriteConfig(im, "oauth2", cfg, d, wenv)
        l == IF im = "GatewayClient" /\ ~w.panic
             THEN login("oauth2", tok.AccessToken, epOK, doOK)
             ELSE [err |-> "", events |-> <<>>]
    IN  [Config |-> cfg2, disk |-> w.disk, panic |-> w.panic,
         events |-> w.events \o l.events,
         Context |-> IF im = "GatewayClient" THEN CtxBackground
                     ELSE CtxAccessToken(tok.AccessToken)]

\* The tail of the handler once a token is in hand. GatewayClient: cache,
\* writeYAMLConfig, login (result dropped), Context = Background. ApiMeta:
\* cache, write, Context carries the access token.
OAuth2CacheOutcome(im, cfg, d, tok, epOK, doOK, wenv) ==
    LET cfg2 == [cfg EXCEPT !.OAuth2.CachedToken = tok]
        w == WriteConfig(im, "oauth2", cfg2, d, wenv)
        l == IF im = "GatewayClient" /\ ~w.panic
             THEN login("oauth2", tok.AccessToken, epOK, doOK)
             ELSE [err |-> "", events |-> <<>>]
    IN  [Config |-> cfg2, disk |-> w.disk, panic |-> w.panic,
         events |-> w.events \o l.events,
         Context |-> IF im = "GatewayClient" THEN CtxBackground
                     ELSE CtxAccessToken(tok.AccessToken)]

OAuthCache ==
    /\ pc = "oauth_cache"
    /\ \E doOK \in Answers(impl = "GatewayClient" /\ endpointOK), wenv \in WriteEnvs :
        LET r == OAuth2CacheOutcome(impl, Config, disk, oa.newToken, endpointOK, doOK, wenv)
        IN  /\ Config' = r.Config
            /\ disk' = r.disk
            /\ events' = events \o r.events
            /\ Count(r.events)
            /\ IF r.panic THEN
                   /\ pc' = "panic"
                   /\ UNCHANGED <<Context, oa>>
               ELSE
                   /\ Context' = r.Context
                   /\ pc' = AfterOAuth2
                   /\ oa' = NoLocals
    /\ UNCHANGED <<Flags, client, defaultTransportInsecure, err, listener, echoed, ran,
                   fileReads>>

-----------------------------------------------------------------------------
(* The local callback listener started by the interactive OAuth2 flow.     *)

\* http.ListenAndServe binds port 8085 or returns an error nobody reads.
ListenerBind ==
    /\ listener = "spawned"
    /\ listener' \in {"serving", "bindfailed"}
    /\ UNCHANGED <<Flags, disk, Config, Context, client, defaultTransportInsecure, pc,
                   err, echoed, oa, events, ran, netCalls, fileReads, fileWrites,
                   warnings>>

RequestCodes == { <<119>> }

\* Mutant of ListenerServe: the server is shut down once it has answered.
ListenerServeAndStop ==
    /\ listener = "serving"
    /\ Len(echoed) < MaxRequests
    /\ \E code \in RequestCodes : echoed' = Append(echoed, code)
    /\ listener' = "off"
    /\ UNCHANGED <<Flags, disk, Config, Context, client, defaultTransportInsecure, pc,
                   err, oa, events, ran, netCalls, fileReads, fileWrites, warnings>>

\* The handler registered on "/": writes the request's code parameter back.
ListenerServe ==
    /\ listener = "serving"
    /\ Len(echoed) < MaxRequests
    /\ \E code \in RequestCodes : echoed' = Append(echoed, code)
    /\ UNCHANGED <<Flags, disk, Config, Context, client, defaultTransportInsecure, pc,
                   err, listener, oa, events, ran, netCalls, fileReads, fileWrites,
                   warnings>>

-----------------------------------------------------------------------------
(* authenticateGoogleServiceAccount (GatewayClient only).                  *)

\* Mutant of GsaReusesCached: the validity test inverted.
GsaReusesExpired(gsa) == ~gsa.CachedToken.nil /\ ~TokenValid(gsa.CachedToken)

\* if gsa.CachedToken != nil && gsa.CachedToken.Valid()
GsaReusesCached(gsa) == ~gsa.CachedToken.nil /\ TokenValid(gsa.CachedToken)

\* Mutant of SessionContext: the handler leaves the context as it found it.
SessionContextKept(ctx) == ctx

\* m.Context = context.Background() at the end of the service-account and
\* LDAP handlers: a new empty context, whatever the context held.
SessionContext(ctx) == CtxBackground

\* Mutant of GsaOutcome: the fresh token is cached and written before the
\* login, so a login that returns an error comes after the write.
GsaOutcomeWritesFirst(cfg, ctx, d, epOK, fileOK, sourceOK, tokenOK, doOK, wenv) ==
    LET gsa == cfg.GoogleServiceAccount
        same == [Config |-> cfg, Context |-> ctx, disk |-> d, err |-> "",
                 panic |-> FALSE, events |-> <<>>, handler |-> <<>>]
    IN
    IF cfg.auth = "absent" THEN same
    ELSE IF ~GsaIsEnabled(gsa) THEN same
    ELSE IF GsaReusesCached(gsa) THEN
        LET l == login("gsa", gsa.CachedToken.AccessToken, epOK, doOK)
        IN  [same EXCEPT !.err = l.err, !.events = l.events, !.handler = <<"gsa">>]
    ELSE
        LET cfg1 == [cfg EXCEPT !.GoogleServiceAccount.CachedToken = NilToken]
            kind == IF gsa.File = "" THEN "default" ELSE "jwt"
            sel == << [by |-> "gsa", type |-> "select_source", source |-> kind] >>
            cleared == [same EXCEPT !.Config = cfg1, !.handler = <<"gsa">>]
        IN
        IF gsa.File # "" /\ ~fileOK THEN [cleared EXCEPT !.err = "keyfile"]
        ELSE IF ~sourceOK THEN [cleared EXCEPT !.err = "tokensource", !.events = sel]
        ELSE
            LET fetch == sel \o << [by |-> "gsa", type |-> "gsa_fetch", ok |-> tokenOK] >>
                token == Token("gsaFreshAT", FALSE)
            IN
            IF ~tokenOK THEN [cleared EXCEPT !.err = "token", !.events = fetch]
            ELSE
                LET cfg2 == [cfg1 EXCEPT !.GoogleServiceAccount.CachedToken = token]
                    w == writeYAMLConfig("gsa", cfg2, d, wenv)
                    l == login("gsa", token.AccessToken, epOK, doOK)
                IN  [Config |-> cfg2, Context |-> SessionContext(ctx), disk |-> w.disk,
                     err |-> l.err, panic |-> w.panic,
                     events |-> fetch \o w.events \o l.events,
                     handler |-> <<"gsa">>]

\* The handler as a function of its inputs and of what the environment
\* answers: fileOK (ReadFile of the key file), sourceOK (the token source is
\* built), tokenOK (source.Token()), doOK (httpClient.Do in login), wenv (the
\* file system at the write).
GsaOutcome(cfg, ctx, d, epOK, fileOK, sourceOK, tokenOK, doOK, wenv) ==
    LET gsa == cfg.GoogleServiceAccount
        same == [Config |-> cfg, Context |-> ctx, disk |-> d, err |-> "",
                 panic |-> FALSE, events |-> <<>>, handler |-> <<>>]
    IN
    IF cfg.auth = "absent" THEN same
    ELSE IF ~GsaIsEnabled(gsa) THEN same
    ELSE IF GsaReusesCached(gsa) THEN
        LET l == login("gsa", gsa.CachedToken.AccessToken, epOK, doOK)
        IN  [same EXCEPT !.err = l.err, !.events = l.events, !.handler = <<"gsa">>]
    ELSE
        LET cfg1 == [cfg EXCEPT !.GoogleServiceAccount.CachedToken = NilToken]
            kind == IF gsa.File = "" THEN "default" ELSE "jwt"
            sel == << [by |-> "gsa", type |-> "select_source", source |-> kind] >>
            cleared == [same EXCEPT !.Config = cfg1, !.handler = <<"gsa">>]
        IN
        IF gsa.File # "" /\ ~fileOK THEN [cleared EXCEPT !.err = "keyfile"]
        ELSE IF ~sourceOK THEN [cleared EXCEPT !.err = "tokensource", !.events = sel]
        ELSE
            LET fetch == sel \o << [by |-> "gsa", type |-> "gsa_fetch", ok |-> tokenOK] >>
                token == Token("gsaFreshAT", FALSE)
            IN
            IF ~tokenOK THEN [cleared EXCEPT !.err = "token", !.events = fetch]
            ELSE
                LET l == login("gsa", token.AccessToken, epOK, doOK)
                IN
                IF l.err # "" THEN [cleared EXCEPT !.err = l.err, !.events = fetch \o l.events]
                ELSE
                    LET cfg2 == [cfg1 EXCEPT !.GoogleServiceAccount.CachedToken = token]
                        w == writeYAMLConfig("gsa", cfg2, d, wenv)
                    IN  [Config |-> cfg2, Context |-> SessionContext(ctx), disk |-> w.disk,
                         err |-> "", panic |-> w.panic,
                         events |-> fetch \o l.events \o w.events,
                         handler |-> <<"gsa">>]

GsaApplies(cfg) == cfg.auth # "absent" /\ GsaIsEnabled(cfg.GoogleServiceAccount)
GsaFetches(cfg) == GsaApplies(cfg) /\ ~GsaReusesCached(cfg.GoogleServiceAccount)

AuthenticateGoogleServiceAccount ==
    /\ pc = "authenticateGoogleServiceAccount"
    /\ \E fileOK \in Answers(GsaFetches(Config) /\ Config.GoogleServiceAccount.File # ""),
          sourceOK \in Answers(GsaFetches(Config)),
          tokenOK \in Answers(GsaFetches(Config)),
          doOK \in Answers(GsaApplies(Config) /\ endpointOK),
          wenv \in FileSystems(GsaFetches(Config) /\ endpointOK) :
        LET r == GsaOutcome(Config, Context, disk, endpointOK, fileOK, sourceOK,
                            tokenOK, doOK, wenv)
        IN  /\ Config' = r.Config
            /\ Context' = r.Context
            /\ disk' = r.disk
            /\ events' = r.events
            /\ ran' = ran \o r.handler
            /\ Count(r.events)
            /\ IF r.panic THEN pc' = "panic" /\ UNCHANGED err
               ELSE IF r.err # "" THEN Fail(r.err)
               ELSE pc' = AfterGsa /\ UNCHANGED err
    /\ UNCHANGED <<Flags, client, defaultTransportInsecure, listener, echoed, oa,
                   fileReads>>

-----------------------------------------------------------------------------
(* authenticateLdap (GatewayClient only).                                  *)

LdapApplies(cfg) == AuthEnabled(cfg) /\ ~cfg.Ldap.nil

\* Mutant of LdapForm: the two values change places.
LdapFormSwapped(l) == [username |-> l.Password, password |-> l.Username]

\* form.Add("username", ...); form.Add("password", ...)
LdapForm(l) == [username |-> l.Username, password |-> l.Password]

\* userLine and passLine are what the terminal delivers if the handler asks;
\* doOK is whether httpClient.Do returns without a transport error.
LdapOutcome(cfg, ctx, epOK, userLine, passLine, doOK) ==
    LET same == [Config |-> cfg, Context |-> ctx, err |-> "", panic |-> FALSE,
                 events |-> <<>>, handler |-> <<>>]
    IN
    IF ~LdapApplies(cfg) THEN same
    ELSE
        LET askUser == cfg.Ldap.Username = <<>>
            askPass == cfg.Ldap.Password = <<>>
            ldap == [cfg.Ldap EXCEPT
                        !.Username = IF askUser THEN prompt(userLine) ELSE @,
                        !.Password = IF askPass THEN securePrompt(passLine) ELSE @]
            cfg1 == [cfg EXCEPT !.Ldap = ldap]
            asked ==
                (IF askUser
                 THEN << [by |-> "ldap", type |-> "prompt", secure |-> FALSE,
                          field |-> "username"] >>
                 ELSE <<>>)
                \o
                (IF askPass
                 THEN << [by |-> "ldap", type |-> "prompt", secure |-> TRUE,
                          field |-> "password"] >>
                 ELSE <<>>)
            base == [same EXCEPT !.Config = cfg1, !.events = asked, !.handler = <<"ldap">>]
        IN
        IF ~LdapIsValid(ldap) THEN [base EXCEPT !.err = "ldapconfig"]
        ELSE IF ~epOK THEN
            \* http.NewRequest fails, loginReq is nil, loginReq.Header.Set panics
            [base EXCEPT !.panic = TRUE]
        ELSE
            LET post == << [by |-> "ldap", type |-> "post_login", form |-> LdapForm(ldap),
                            ok |-> doOK] >>
            IN  IF ~doOK THEN [base EXCEPT !.err = "ldap", !.events = asked \o post]
                ELSE [base EXCEPT !.events = asked \o post, !.Context = SessionContext(ctx)]

AuthenticateLdap ==
    /\ pc = "authenticateLdap"
    /\ \E userLine \in Lines(LdapApplies(Config) /\ Config.Ldap.Username = <<>>),
          passLine \in Lines(LdapApplies(Config) /\ Config.Ldap.Password = <<>>),
          doOK \in Answers(LdapApplies(Config) /\ endpointOK) :
        LET r == LdapOutcome(Config, Context, endpointOK, userLine, passLine, doOK)
        IN  /\ Config' = r.Config
            /\ Context' = r.Context
            /\ events' = r.events
            /\ ran' = ran \o r.handler
            /\ Count(r.events)
            /\ IF r.panic THEN pc' = "panic" /\ UNCHANGED err
               ELSE IF r.err # "" THEN Fail(r.err)
               ELSE pc' = AfterLdap /\ UNCHANGED err
    /\ UNCHANGED <<Flags, disk, client, defaultTransportInsecure, listener, echoed, oa,
                   fileReads>>

-----------------------------------------------------------------------------
(* The end of GatewayClient's NewGateClient: default headers, API client,  *)
(* version call.                                                           *)

Finish ==
    /\ pc = "finish"
    /\ IF ~defaultHeadersOK THEN
           /\ Fail("headers")
           /\ events' = <<>>
           /\ UNCHANGED <<netCalls, fileWrites, warnings>>
       ELSE
           \E ok \in BOOLEAN :
               LET es == << [by |-> "version", type |-> "get_version", ok |-> ok] >>
               IN  /\ events' = es
                   /\ Count(es)
                   /\ IF ok THEN pc' = "done" /\ UNCHANGED err
                      ELSE Fail("version")
    /\ UNCHANGED <<Flags, disk, Config, Context, client, defaultTransportInsecure,
                   listener, echoed, oa, ran, fileReads>>

-----------------------------------------------------------------------------
(* The application commands (cmd/application), which run on the client     *)
(* NewGateClient(flags) returned. When NewGateClient fails the command     *)
(* returns that error at once: the state "failed" is its result too.       *)

\* What a call of the Gate API client gives back: an error, or a response
\* with its status code.
GateAnswers ==
    { [failed |-> TRUE, status |-> 0] }
    \cup { [failed |-> FALSE, status |-> c] : c \in {StatusOK, 202, 500} }

\* The tail both commands share once the call has returned: the call's error
\* is returned; with any status but 200 the error message is shown and the
\* same err variable, nil at that point, is returned; otherwise the output
\* is shown and nil returned.
CommandOutcome(command, answer) ==
    LET call == [by |-> command, type |-> "gate_call", failed |-> answer.failed,
                 status |-> answer.status]
    IN  IF answer.failed THEN
            [err |-> "gate", events |-> << call, [by |-> command, type |-> "ui_error"] >>]
        ELSE IF answer.status # StatusOK THEN
            [err |-> "", events |-> << call, [by |-> command, type |-> "ui_error"] >>]
        ELSE
            [err |-> "", events |-> << call, [by |-> command, type |-> "output"] >>]

\* deleteApplication: args[0] is the application name.
DeleteApplication ==
    /\ impl = "ApiMeta" /\ pc = "done"
    /\ \E nameGiven \in BOOLEAN, answer \in GateAnswers :
        IF ~nameGiven THEN
            /\ err' = "namerequired"
            /\ events' = <<>>
        ELSE
            LET r == CommandOutcome("delete", answer)
            IN  err' = r.err /\ events' = r.events
    /\ pc' = "returned"
    /\ UNCHANGED <<Flags, disk, Config, Context, client, defaultTransportInsecure,
                   listener, echoed, oa, ran, netCalls, fileReads, fileWrites, warnings>>

\* listApplication
ListApplication ==
    /\ impl = "ApiMeta" /\ pc = "done"
    /\ \E answer \in GateAnswers :
        LET r == CommandOutcome("list", answer)
        IN  err' = r.err /\ events' = r.events
    /\ pc' = "returned"
    /\ UNCHANGED <<Flags, disk, Config, Context, client, defaultTransportInsecure,
                   listener, echoed, oa, ran, netCalls, fileReads, fileWrites, warnings>>

-----------------------------------------------------------------------------

Next ==
    \/ UserConfig
    \/ InitializeClient
    \/ AuthenticateOAuth2
    \/ OAuthVerifier
    \/ OAuthPrompt
    \/ OAuthExchange
    \/ OAuthCache
    \/ ListenerBind
    \/ ListenerServe
    \/ AuthenticateGoogleServiceAccount
    \/ AuthenticateLdap
    \/ Finish
    \/ DeleteApplication
    \/ ListApplication

Spec == Init /\ [][Next]_vars

Returned == pc \in {"done", "failed", "panic"}

-----------------------------------------------------------------------------
(* Properties.                                                             *)

MainStep == pc' # pc

InteractiveTypes == {"listen", "url", "prompt", "exchange"}

\* Neither the certPath/keyPath pair nor the cert/key pair is fully populated.
NeitherPair(x) == ~(x.CertPath # "" /\ x.KeyPath # "") /\ ~(x.Cert # "" /\ x.Key # "")

\* An enabled scheme whose required fields are missing or invalid.
Misconfigured(cfg) ==
    /\ AuthEnabled(cfg)
    /\ \/ ~cfg.X509.nil /\ NeitherPair(cfg.X509)
       \/ ~cfg.Basic.nil /\ ~BasicIsValid(cfg.Basic)
       \/ ~cfg.OAuth2.nil /\ ~OAuth2IsValid(cfg.OAuth2)
       \/ ~cfg.Ldap.nil /\ ~LdapIsValid(cfg.Ldap)

\* C1 (as claimed): whenever an enabled scheme is misconfigured, GatewayClient's
\* NewGateClient returns an error and no network call was made before it.
C1_ConfigErrorBeforeAnyNetworkCall ==
    (impl = "GatewayClient" /\ Returned /\ loadOutcome = "ok" /\ Misconfigured(Config))
        => (pc = "failed" /\ err # "" /\ netCalls = 0)

\* C2: with auth enabled and an X509 section that has neither pair fully
\* populated, the client initialization step ends in the configuration error,
\* returns no client and makes no network call.
C2_X509NeitherPairIsConfigError ==
    [][ (pc = "initializeClient" /\ MainStep /\ AuthEnabled(Config) /\ ~Config.X509.nil
            /\ NeitherPair(Config.X509))
        => (pc' = "failed" /\ err' = "x509config" /\ client' = NoClient
            /\ netCalls' = netCalls /\ NetCount(events') = 0) ]_vars

C2_Witness ==
    /\ pc = "failed" /\ err = "x509config" /\ client = NoClient
    /\ AuthEnabled(Config) /\ ~Config.X509.nil /\ NeitherPair(Config.X509)
    /\ Config.X509.CertPath # ""

\* C3 (as claimed): the challenge in the authorization URL is
\* base64url(SHA256(verifier)) with method S256, and the exchange sends the
\* verifier that produced that challenge.
C3_ChallengeIsS256OfVerifier ==
    /\ \A i \in Positions(events, {"url"}) :
          /\ events[i].method = "S256"
          /\ events[i].challenge = RawURLEncode(Sum256(oa.verifier))
    /\ \A i \in Positions(events, {"url"}), j \in Positions(events, {"exchange"}) :
          events[i].challenge = RawURLEncode(Sum256(events[j].verifier))

\* C4: a handler that finds a cached token in the config never starts the
\* listener, never shows the authorization URL and never prompts; its token is
\* the cached one or the one its token source refreshed.
C4_CachedTokenSkipsInteractiveFlow ==
    [][ /\ (pc = "authenticateOAuth2" /\ MainStep /\ OAuth2Applies(Config)
              /\ ~Config.OAuth2.CachedToken.nil)
           => /\ listener' = listener
              /\ pc' \in {"oauth_cache", "failed"}
              /\ Positions(events', InteractiveTypes) = {}
              /\ pc' = "oauth_cache" =>
                   oa'.newToken \in {Config.OAuth2.CachedToken, Token("refreshedAT", FALSE)}
        /\ (pc = "oauth_cache" /\ MainStep)
           => /\ listener' = listener
              /\ Positions(events', InteractiveTypes) = Positions(events, InteractiveTypes)
              /\ pc' \notin {"oauth_verifier", "oauth_prompt", "oauth_exchange"} ]_vars

C4_Witness ==
    /\ pc = AfterOAuth2 /\ OAuth2Applies(Config) /\ listener = "off"
    /\ Config.OAuth2.CachedToken.AccessToken = "refreshedAT"
    /\ Positions(events, {"refresh"}) # {}
    /\ Positions(events, InteractiveTypes) = {}

\* C5: when the cached token's token source fails, the handler returns that
\* error, NewGateClient fails for good, and no interactive flow is started.
C5_RefreshFailureIsReturned ==
    [][ /\ (pc = "authenticateOAuth2" /\ MainStep /\ OAuth2Applies(Config)
              /\ ~Config.OAuth2.CachedToken.nil
              /\ \E i \in Positions(events', {"refresh"}) : ~events'[i].ok)
           => /\ pc' = "failed" /\ err' = "refresh"
              /\ listener' = listener
              /\ Positions(events', InteractiveTypes) = {}
        /\ pc = "failed" => (pc' = "failed" /\ err' = err /\ events' = events) ]_vars

C5_Witness ==
    /\ pc = "failed" /\ err = "refresh" /\ listener = "off"
    /\ events = << [by |-> "oauth2", type |-> "refresh", ok |-> FALSE] >>

\* The OAuth2 handler has returned nil after handling its section.
OAuth2Done ==
    /\ pc = AfterOAuth2 /\ OAuth2Applies(Config)
    /\ ran # <<>> /\ ran[Len(ran)] = "oauth2"

\* C6 (as claimed): in the interactive flow the listener is started, then the
\* URL with code_challenge_method=S256 is shown, then the terminal is read,
\* then the code read is exchanged, and the config is written only after a
\* successful exchange.
C6_InteractiveFlowOrder ==
    (events # <<>> /\ events[1].type = "listen") =>
        /\ pc \notin {"oauth_verifier", "failed"} => Positions(events, {"url"}) # {}
        /\ \A u \in Positions(events, {"url"}) : events[u].method = "S256" /\ 1 < u
        /\ \A q \in Positions(events, {"prompt"}) :
              \E u \in Positions(events, {"url"}) : u < q
        /\ \A x \in Positions(events, {"exchange"}) :
              /\ \E q \in Positions(events, {"prompt"}) : q < x
              /\ pc \in {"oauth_cache", "failed"} => events[x].code = oa.code
        /\ \A w \in Positions(events, {"write"}) :
              \E x \in Positions(events, {"exchange"}) : x < w /\ events[x].ok

\* The same statement of GatewayClient alone, where it holds.
C6_OrderInGatewayClient ==
    (impl = "GatewayClient") => C6_InteractiveFlowOrder

C8_ValidCachedGsaTokenOnlyLogsIn ==
    [][ (pc = "authenticateGoogleServiceAccount" /\ MainStep /\ GsaApplies(Config)
            /\ TokenValid(Config.GoogleServiceAccount.CachedToken))
        => /\ Positions(events', {"select_source", "gsa_fetch", "write", "warn"}) = {}
           /\ disk' = disk /\ fileWrites' = fileWrites /\ Config' = Config
           /\ \A i \in DOMAIN events' :
                 /\ events'[i].type = "get_login"
                 /\ events'[i].token = Config.GoogleServiceAccount.CachedToken.AccessToken
           /\ Len(events') = (IF endpointOK THEN 1 ELSE 0)
           /\ ~endpointOK => pc' = "failed" ]_vars

C8_Witness ==
    /\ pc = "authenticateLdap"
    /\ TokenValid(Config.GoogleServiceAccount.CachedToken) /\ GsaApplies(Config)
    /\ Len(events) = 1 /\ events[1].type = "get_login" /\ events[1].token = "gsaCachedAT"
    /\ fileWrites = 0

\* C9 (as claimed): in the fetch path the token is cached and written only
\* after a SessionLogin that succeeded; a failed GET /login makes the handler
\* return an error with the token neither cached nor written.
C9_FailedLoginIsSurfaced ==
    \A i \in Positions(events, {"get_login"}) :
        (events[i].by = "gsa" /\ events[i].token = "gsaFreshAT" /\ ~events[i].ok)
            => /\ pc = "failed"
               /\ Config.GoogleServiceAccount.CachedToken.nil
               /\ Positions(events, {"write"}) = {}

\* C10: the LDAP handler asks for the username exactly when the config has
\* none and for the password exactly when the config has none, keeps the
\* configured values, and posts at most once, after the prompts, a form of
\* exactly the fields username and password holding the resolved values; it
\* posts exactly once when both values are non-empty and the request can be
\* built.
C10_LdapPromptsAndForm ==
    [][ (pc = "authenticateLdap" /\ MainStep /\ LdapApplies(Config)) =>
          LET asks(f) == { i \in Positions(events', {"prompt"}) : events'[i].field = f }
              posts == Positions(events', {"post_login"})
          IN  /\ Cardinality(asks("username")) = Dev(Config.Ldap.Username = <<>>)
              /\ Cardinality(asks("password")) = Dev(Config.Ldap.Password = <<>>)
              /\ Positions(events', {"prompt"}) = asks("username") \cup asks("password")
              /\ Config.Ldap.Username # <<>> => Config'.Ldap.Username = Config.Ldap.Username
              /\ Config.Ldap.Password # <<>> => Config'.Ldap.Password = Config.Ldap.Password
              /\ Config'.Ldap.Username \in
                    {Config.Ldap.Username} \cup { TrimSpace(l) : l \in TerminalLines }
              /\ Config'.Ldap.Password \in
                    {Config.Ldap.Password} \cup { TrimSpace(l) : l \in TerminalLines }
              /\ Cardinality(posts) =
                    Dev(Config'.Ldap.Username # <<>> /\ Config'.Ldap.Password # <<>>
                        /\ endpointOK)
              /\ \A j \in posts :
                    /\ DOMAIN events'[j].form = {"username", "password"}
                    /\ events'[j].form.username = Config'.Ldap.Username
                    /\ events'[j].form.password = Config'.Ldap.Password
                    /\ \A i \in Positions(events', {"prompt"}) : i < j ]_vars

C10_Witness ==
    /\ pc = "finish" /\ LdapApplies(Config)
    /\ Len(events) = 2 /\ events[1].type = "prompt" /\ events[1].field = "password"
    /\ events[2].type = "post_login"
    /\ events[2].form = [username |-> <<117>>, password |-> <<120>>]

C12_WriteKeepsModeOrCreatesOwnerOnly ==
    /\ \A w \in Positions(events, {"write"}) :
          events[w].mode = (IF disk.exists THEN disk.mode ELSE defaultConfigFileMode)
    /\ (loadOutcome = "ok" /\ ~disk.exists) =>
          /\ pc # "panic"
          /\ \E w \in Positions(events, {"write"}) :
                events[w].mode = defaultConfigFileMode

\* C13 (as claimed): when GatewayClient's OAuth2 handler persists its token,
\* the handler succeeds with the token cached in memory and the login done,
\* and the write either succeeded or a warning was emitted.
C13_FailedWriteIsWarnedAndHarmless ==
    [][ (impl = "GatewayClient" /\ pc = "oauth_cache" /\ MainStep) =>
          /\ pc' = AfterOAuth2
          /\ Config'.OAuth2.CachedToken = oa.newToken
          /\ Cardinality(Positions(events', {"get_login"}))
                - Cardinality(Positions(events, {"get_login"})) = Dev(endpointOK)
          /\ \/ fileWrites' = fileWrites + 1 /\ disk'.content = Config'
             \/ warnings' = warnings + 1 ]_vars

\* C14 (as claimed): in one run the config file is read once and written at
\* most once.
C14_ReadOnceWrittenAtMostOnce ==
    /\ fileReads = Dev(pc # "userConfig")
    /\ fileWrites <= 1

\* The handlers that have run so far and cache a token.
CachingHandlersRun == { i \in DOMAIN ran : ran[i] \in {"oauth2", "gsa"} }

\* C14 (amended): in one run the config file is read once, and written at most
\* once by each of the two handlers that cache a token (OAuth2 and Google
\* service account): at most once when only one of them runs, at most twice
\* when both run, never by anything else.
C14_Amended ==
    /\ fileReads = Dev(pc # "userConfig")
    /\ fileWrites <= Cardinality(CachingHandlersRun)
    /\ Cardinality(CachingHandlersRun) <= (IF impl = "GatewayClient" THEN 2 ELSE 1)

C14_Witness ==
    /\ pc = "done" /\ fileReads = 1 /\ fileWrites = 2
    /\ ran = <<"oauth2", "gsa">>
    /\ disk.content.OAuth2.CachedToken = Token("exchangedAT", FALSE)
    /\ disk.content.GoogleServiceAccount.CachedToken = Token("gsaFreshAT", FALSE)

\* The schemes whose section is enabled, in the claimed order.
EnabledHandlers(cfg) ==
    SelectSeq(<<"x509", "iap", "basic", "oauth2", "gsa", "ldap">>,
              LAMBDA h : \/ h = "x509" /\ ~cfg.X509.nil
                         \/ h = "iap" /\ ~cfg.Iap.nil
                         \/ h = "basic" /\ ~cfg.Basic.nil
                         \/ h = "oauth2" /\ ~cfg.OAuth2.nil
                         \/ h = "gsa" /\ GsaIsEnabled(cfg.GoogleServiceAccount)
                         \/ h = "ldap" /\ ~cfg.Ldap.nil)

\* C15 (as claimed): with auth enabled, a construction that succeeds has run
\* the handler of every enabled scheme, in the order X509, IAP, Basic, OAuth2,
\* GoogleServiceAccount, LDAP.
C15_EveryEnabledHandlerRunsInOrder ==
    (pc = "done" /\ AuthEnabled(Config)) => ran = EnabledHandlers(Config)

\* Auth enabled and a valid Basic section, no other scheme section.
OnlyBasic(cfg) ==
    /\ AuthEnabled(cfg) /\ ~cfg.Basic.nil /\ BasicIsValid(cfg.Basic)
    /\ cfg.X509.nil /\ cfg.Iap.nil /\ cfg.OAuth2.nil
    /\ cfg.GoogleServiceAccount.nil /\ cfg.Ldap.nil

\* The handlers have all returned: GatewayClient is at (or past) the headers
\* and version request that end NewGateClient, ApiMeta has returned.
Resolved == pc \in {"finish", "done"} \/ (pc = "failed" /\ err \in {"headers", "version"})

EmptyAuth(cfg) ==
    /\ cfg.X509.nil /\ cfg.Iap.nil /\ cfg.Basic.nil /\ cfg.OAuth2.nil
    /\ cfg.GoogleServiceAccount.nil /\ cfg.Ldap.nil

\* C17: once the config is loaded with an empty auth section, resolution
\* always completes with the context left without any credential; nothing prompts, logs in, fetches a
\* token, starts the listener or writes the config; the client has the cookie
\* jar and no TLS configuration of its own, and the default transport skips
\* verification exactly when the insecure flag is set.
C17_EmptyAuthIsUnauthenticated ==
    (pc # "userConfig" /\ err \notin {"unmarshal", "readfile"} /\ EmptyAuth(Config)) =>
        /\ pc # "panic" /\ (pc = "failed" => Resolved)
        /\ Context = CtxNil
        /\ ran = <<>> /\ listener = "off" /\ fileWrites = 0
        /\ Positions(events, {"prompt", "get_login", "post_login", "iap_fetch",
                               "gsa_fetch", "refresh", "exchange", "write"}) = {}
        /\ netCalls = CountType(events, {"get_version"})
        /\ ~client.nil =>
              /\ client.Jar /\ ~client.tls /\ client.Certificates = <<>>
              /\ ~client.InsecureSkipVerify
              /\ defaultTransportInsecure = ignoreCertErrors
        /\ Resolved => ~client.nil

C17_Witness ==
    /\ pc = "done" /\ Config.auth = "absent" /\ EmptyAuth(Config)
    /\ ignoreCertErrors /\ defaultTransportInsecure
    /\ ~client.nil /\ ~client.tls /\ Context = CtxNil /\ fileWrites = 0

\* C18: with auth enabled and an X509 section, a client is returned only for a
\* valid section whose pair loads, and then its TLS configuration has minimum
\* version TLS 1.2, server cipher preference, exactly the one certificate of
\* the populated pair (file pair or inline pair), and InsecureSkipVerify
\* exactly when the insecure flag is set; a valid section fails only when the
\* pair does not load.
C18_X509TlsConfiguration ==
    (pc # "userConfig" /\ AuthEnabled(Config) /\ ~Config.X509.nil) =>
        /\ ~client.nil =>
              /\ X509IsValid(Config.X509)
              /\ client.tls /\ client.Jar
              /\ client.MinVersion = VersionTLS12
              /\ client.PreferServerCipherSuites
              /\ client.Certificates =
                    (IF Config.X509.CertPath # "" /\ Config.X509.KeyPath # ""
                     THEN <<"fileCert">> ELSE <<"inlineCert">>)
              /\ client.InsecureSkipVerify = ignoreCertErrors
        /\ Resolved => ~client.nil
        /\ (pc = "failed" /\ client.nil /\ ran # <<>> /\ ran[Len(ran)] = "x509") =>
              err = (IF X509IsValid(Config.X509) THEN "x509load" ELSE "x509config")

C18_Witness ==
    /\ pc = "done" /\ ignoreCertErrors /\ client.InsecureSkipVerify
    /\ client.MinVersion = VersionTLS12
    /\ Config.X509.CertPath = "" /\ client.Certificates = <<"inlineCert">>

\* A context that carries one credential at most, built from an empty one.
FreshContext(c) ==
    \/ c = CtxBackground
    \/ c.kind = "ContextAccessToken" /\ c.UserName = "" /\ c.Password = ""
    \/ c.kind = "ContextBasicAuth" /\ c.token = ""

\* C19: the context is only ever replaced as a whole by the handler that is
\* running, never extended, so the context returned is the one of the last
\* handler that set it: a handler of the second group (OAuth2, service
\* account fetching a token, LDAP) that succeeds leaves its own context with
\* nothing of what IAP or Basic had put there.
C19_LastHandlerSetsContext ==
    [][ /\ Context' # Context =>
              /\ FreshContext(Context')
              /\ pc \in {"initializeClient", "oauth_cache",
                          "authenticateGoogleServiceAccount", "authenticateLdap"}
              /\ pc = "initializeClient" =>
                    Context'.kind \in {"ContextAccessToken", "ContextBasicAuth"}
        /\ (pc = "oauth_cache" /\ pc' = AfterOAuth2) =>
              Context' = (IF impl = "GatewayClient" THEN CtxBackground
                          ELSE CtxAccessToken(oa.newToken.AccessToken))
        /\ (pc = "authenticateGoogleServiceAccount" /\ GsaFetches(Config) /\ pc' = AfterGsa)
              => Context' = CtxBackground
        /\ (pc = "authenticateLdap" /\ LdapApplies(Config) /\ pc' = AfterLdap)
              => Context' = CtxBackground ]_vars

C19_Witness ==
    /\ pc = "finish" /\ ran = <<"basic", "ldap">>
    /\ BasicIsValid(Config.Basic) /\ Context = CtxBackground

\* C20 (as claimed): the LDAP handler fails exactly when a value is still
\* empty after the prompts or the POST ends in a transport error, and with an
\* empty value no POST is made.
C20_LdapFailsIffEmptyOrTransportError ==
    [][ (pc = "authenticateLdap" /\ MainStep /\ LdapApplies(Config)) =>
          LET posts == Positions(events', {"post_login"})
              empty == Config'.Ldap.Username = <<>> \/ Config'.Ldap.Password = <<>>
          IN  /\ (pc' # AfterLdap) <=> (empty \/ \E j \in posts : ~events'[j].ok)
              /\ empty => posts = {} ]_vars

\* The same statement for an endpoint from which the login request can be
\* built, where it holds.
C20_WhenRequestCanBeBuilt ==
    [][ endpointOK =>
          ((pc = "authenticateLdap" /\ MainStep /\ LdapApplies(Config)) =>
              LET posts == Positions(events', {"post_login"})
                  empty == Config'.Ldap.Username = <<>> \/ Config'.Ldap.Password = <<>>
              IN  /\ (pc' = "failed") <=> (empty \/ \E j \in posts : ~events'[j].ok)
                  /\ pc' \in {"failed", AfterLdap}
                  /\ empty => posts = {}) ]_vars

\* The state of the main flow: everything but the listener's own state.
MainVars ==
    <<impl, ignoreCertErrors, endpointOK, defaultHeadersOK, loadOutcome, disk, Config,
      Context, client, defaultTransportInsecure, pc, err, oa, events, ran, netCalls,
      fileReads, fileWrites, warnings>>

\* C21: the code sent in the exchange is exactly the trimmed terminal line;
\* the steps of the main flow from the prompt on neither read nor change the
\* listener, a step of the listener (binding, failing to bind, echoing a
\* request's code) changes nothing of the main flow, and the token cached is
\* the one the exchange returned.
C21_ExchangeUsesTypedCode ==
    [][ /\ (pc = "oauth_prompt" /\ MainStep) =>
              /\ oa'.code \in { TrimSpace(l) : l \in TerminalLines }
              /\ UNCHANGED <<listener, echoed>>
        /\ (pc = "oauth_exchange" /\ MainStep) =>
              /\ events'[Len(events')].type = "exchange"
              /\ events'[Len(events')].code = oa.code
              /\ events'[Len(events')].code \in { TrimSpace(l) : l \in TerminalLines }
              /\ (pc' = "oauth_cache") = events'[Len(events')].ok
              /\ pc' = "oauth_cache" => oa'.newToken = Token("exchangedAT", FALSE)
              /\ pc' # "oauth_cache" => (pc' = "failed" /\ err' = "exchange")
              /\ UNCHANGED <<listener, echoed>>
        /\ (pc = "oauth_cache" /\ MainStep) =>
              /\ Config'.OAuth2.CachedToken = oa.newToken
              /\ UNCHANGED <<listener, echoed>>
        /\ (pc # "authenticateOAuth2" /\ <<listener, echoed>>' # <<listener, echoed>>) =>
              UNCHANGED MainVars ]_vars

C21_Witness ==
    /\ OAuth2Done /\ listener = "serving" /\ echoed = << <<119>> >>
    /\ Config.OAuth2.CachedToken = Token("exchangedAT", FALSE)
    /\ \E x \in Positions(events, {"exchange"}) : events[x].code = <<120>> /\ events[x].ok

\* C22: the program has no step that stops the listener: once the goroutine
\* is started it is never back to "off", once it serves it serves in every
\* later state, whatever becomes of the main flow; the only changes of the
\* listener are its start by the OAuth2 handler and the outcome of its bind.
C22_ListenerIsNeverStopped ==
    [][ /\ listener # "off" => listener' # "off"
        /\ listener = "serving" => listener' = "serving"
        /\ listener = "bindfailed" => listener' = "bindfailed"
        /\ (listener = "off" /\ listener' # "off") =>
              (pc = "authenticateOAuth2" /\ pc' = "oauth_verifier" /\ listener' = "spawned")
      ]_vars

C22_Witness ==
    /\ pc = "failed" /\ err = "rand" /\ listener = "serving" /\ echoed # <<>>

AcquisitionTypes == {"refresh", "exchange", "iap_fetch", "gsa_fetch"}
LoginTypes == {"get_login", "post_login"}

\* How many of the handlers named have run.
RanCount(names) == Cardinality({ i \in DOMAIN ran : ran[i] \in names })

\* C23: a handler acquires a token at most once and sends at most one /login
\* request; a failed acquisition ends the handler with no further step, a
\* failed login is followed by no further request; over the whole run the
\* number of requests is bounded by two per token-caching handler, one for
\* IAP, one for LDAP, and the closing version request.
C23_NoNetworkStepIsRetried ==
    LET acq == Positions(events, AcquisitionTypes)
        logins == Positions(events, LoginTypes)
    IN  /\ Cardinality(acq) <= 1
        /\ Cardinality(logins) <= 1
        /\ \A i \in acq : ~events[i].ok => (pc = "failed" /\ i = Len(events))
        /\ \A i \in logins : ~events[i].ok =>
              \A j \in Positions(events, NetTypes) : j <= i
        /\ netCalls <= 2 * RanCount({"oauth2", "gsa"}) + RanCount({"iap", "ldap"})
                          + CountType(events, {"get_version"})

C23_Witness ==
    /\ pc = "authenticateLdap" /\ ran = <<"gsa">> /\ netCalls = 2
    /\ \E i \in Positions(events, {"get_login"}) : ~events[i].ok

\* C24 (as claimed): with the auth section present and enabled=false no
\* handler takes effect, whatever scheme sections are populated: no prompt, no
\* token fetch, no /login request, no write, no credential in the context.
C24_DisabledAuthDoesNothing ==
    (pc # "userConfig" /\ Config.auth = "disabled") =>
        /\ ran = <<>>
        /\ Positions(events, {"prompt"} \cup AcquisitionTypes \cup LoginTypes
                                \cup {"write", "select_source"}) = {}
        /\ fileWrites = 0
        /\ Context = CtxNil

\* C25: a step of the OAuth2 or service-account handler that ends in an
\* error leaves the context and the file as they were, and the handler call
\* it ends has made no write and no login; the steps of the OAuth2 handler
\* before its caching step change neither context nor file, and the caching
\* step, the only one that writes and logs in, never returns an error.
C25_FailedHandlerLeavesNoTrace ==
    [][ /\ (pc \in {"authenticateOAuth2", "oauth_verifier", "oauth_prompt",
                     "oauth_exchange"} /\ MainStep) =>
              /\ Context' = Context /\ disk' = disk /\ fileWrites' = fileWrites
              /\ Positions(events', {"write"} \cup LoginTypes) = {}
        /\ (pc = "oauth_cache" /\ MainStep) => (pc' # "failed" /\ err' = "")
        /\ (pc = "authenticateGoogleServiceAccount" /\ pc' = "failed") =>
              /\ err' # ""
              /\ Context' = Context /\ disk' = disk /\ fileWrites' = fileWrites
              /\ Positions(events', {"write"} \cup LoginTypes) = {} ]_vars

C25_Witness ==
    /\ pc = "failed" /\ err = "newrequest" /\ ran = <<"gsa">>
    /\ \E i \in Positions(events, {"gsa_fetch"}) : events[i].ok
    /\ fileWrites = 0 /\ Context = CtxNil
    /\ disk.content.GoogleServiceAccount.CachedToken.nil

\* C26 (as claimed): a delete or list command that has made its Gate call
\* returns an error whenever the call failed or the status is not 200, and
\* returns nil only with status 200, after showing the success output.
C26_CommandFailsUnlessStatusOK ==
    (pc = "returned" /\ events # <<>>) =>
        LET call == events[1]
        IN  /\ (call.failed \/ call.status # StatusOK) => err # ""
            /\ err = "" => (/\ ~call.failed /\ call.status = StatusOK
                             /\ events[Len(events)].type = "output")

====
